---- MODULE Spec2Model ----
(***************************************************************************)
(* Model of simulator/resources/icon_cmake.cpp: SetIcon(argv0) builds four *)
(* candidate paths from argv0, probes them in order with                   *)
(* std::filesystem::exists, and either logs a warning and returns, or logs *)
(* the chosen path and hands it to SetIconHelper.                          *)
(*                                                                         *)
(* A string is a sequence of tokens. "/" is the directory separator, "."   *)
(* and "a" are single characters, and "resources" and "icon.png" stand for *)
(* those runs of characters. Adjacent tokens other than "/" concatenate to *)
(* one file name (<<".", ".">> is the name "..").                          *)
(***************************************************************************)
EXTENDS Naturals, Sequences, FiniteSets

VARIABLES
  argv0,      \* the argument of SetIcon
  fs,         \* the filesystem: what the existence check finds for each file
  calls,      \* the calls finished since the filesystem last changed
  pc,         \* where the running call is: idle, probe, report, helper
  pos,        \* index in possible_paths of the next existence check
  icon_path,  \* the local icon_path
  events,     \* what the running call has done so far, in order
  raced       \* whether the filesystem changed while the call ran

vars == <<argv0, fs, calls, pc, pos, icon_path, events, raced>>

\* Longest executable-path hint, in tokens.
MaxHintLen == 3
\* Most calls of SetIcon recorded between two changes of the filesystem.
MaxCalls == 2

Alphabet == {"/", ".", "a", "resources"}

Hints == UNION {[1..n -> Alphabet] : n \in 0..MaxHintLen}

\* What std::filesystem::exists(path) does for a path: returns true, returns
\* false (ENOENT, ENOTDIR), or throws std::filesystem::filesystem_error (any
\* other failure of stat: ELOOP, ENAMETOOLONG, EACCES, ...).
Status == {"exists", "not_found", "error"}

----------------------------------------------------------------------------
(* std::filesystem::path, as libstdc++ on POSIX computes it *)

AllSlashes(s) == \A i \in 1..Len(s) : s[i] = "/"

RECURSIVE StripSlashes(_)
StripSlashes(s) ==
  IF s # <<>> /\ s[Len(s)] = "/" THEN StripSlashes(SubSeq(s, 1, Len(s) - 1)) ELSE s

RECURSIVE StripName(_)
StripName(s) ==
  IF s # <<>> /\ s[Len(s)] # "/" THEN StripName(SubSeq(s, 1, Len(s) - 1)) ELSE s

\* path::parent_path(): the path itself when it has no relative part (empty,
\* or only slashes); otherwise the prefix that ends with the last-but-one
\* element: the root directory "/" or the preceding file name.
parent_path(s) ==
  IF AllSlashes(s) THEN s
  ELSE IF s[Len(s)] = "/" THEN StripSlashes(s)
  ELSE LET t == StripName(s)
       IN  IF t = <<>> THEN <<>>
           ELSE IF AllSlashes(t) THEN <<"/">>
           ELSE StripSlashes(t)

\* operator/ with a relative right operand: the operand alone when the left
\* side is empty, else joined with one separator unless the left side already
\* ends with one.
PathAppend_AlwaysSeparator(p, q) == p \o <<"/">> \o q

PathAppend(p, q) ==
  IF p = <<>> THEN q
  ELSE IF p[Len(p)] = "/" THEN p \o q
  ELSE p \o <<"/">> \o q

\* The candidate list, in probing order.
possible_paths_CwdFirst(hint) ==
  << <<"icon.png">>,
     <<"resources", "/", "icon.png">>,
     PathAppend(parent_path(hint), <<"icon.png">>),
     PathAppend(PathAppend(parent_path(hint), <<"resources">>), <<"icon.png">>) >>

possible_paths(hint) ==
  << PathAppend(parent_path(hint), <<"icon.png">>),
     PathAppend(PathAppend(parent_path(hint), <<"resources">>), <<"icon.png">>),
     <<"resources", "/", "icon.png">>,
     <<"icon.png">> >>

----------------------------------------------------------------------------
(* The filesystem that std::filesystem::exists reads *)

\* The file names of a path, in order: the runs of tokens between separators.
RECURSIVE Components(_, _)
Components(s, cur) ==
  IF s = <<>> THEN (IF cur = <<>> THEN <<>> ELSE <<cur>>)
  ELSE IF Head(s) = "/"
       THEN (IF cur = <<>> THEN <<>> ELSE <<cur>>) \o Components(Tail(s), <<>>)
       ELSE Components(Tail(s), Append(cur, Head(s)))

RECURSIVE DropLeadingDotDot(_)
DropLeadingDotDot(cs) ==
  IF cs # <<>> /\ Head(cs) = <<".", ".">> THEN DropLeadingDotDot(Tail(cs)) ELSE cs

\* The file a path string names: repeated separators and "." elements do not
\* change it, and ".." directly under the root is the root. Any other ".."
\* is kept as written (what it names depends on symbolic links). A relative
\* path is resolved from the current working directory.
FileId(p) ==
  LET abs == p # <<>> /\ p[1] = "/"
      cs  == SelectSeq(Components(p, <<>>), LAMBDA c : c # <<".">>)
  IN  [abs |-> abs, names |-> IF abs THEN DropLeadingDotDot(cs) ELSE cs]

CandidateFiles(hint) == {FileId(possible_paths(hint)[i]) : i \in 1..4}

\* std::filesystem::exists(path) against filesystem fsys.
exists(path, fsys) == fsys[FileId(path)]

----------------------------------------------------------------------------
(* SetIcon, one step per existence check: each check is a system call of    *)
(* its own and the filesystem may change between two of them.               *)

ExistsEvent(path, answer) == [op |-> "exists", tag |-> answer, arg |-> path]
LogEvent(level, text)     == [op |-> "LOG", tag |-> level, arg |-> text]
HelperEvent(path)         == [op |-> "SetIconHelper", tag |-> "call", arg |-> path]

WarningText == <<"Icon file not found in any of the expected locations">>
InfoText(path) == <<"Using icon from: ">> \o path

\* A finished call: how it ended, what it did in order, and whether the
\* filesystem changed while it ran.
CallRecord(outcome, evs) == [outcome |-> outcome, events |-> evs, raced |-> raced]

\* The call is over (by return or by exception): its record is kept and its
\* locals are gone.
Finish(outcome, evs) ==
  /\ calls' = Append(calls, CallRecord(outcome, evs))
  /\ pc' = "idle"
  /\ pos' = 1
  /\ icon_path' = <<>>
  /\ events' = <<>>
  /\ raced' = FALSE

Init ==
  /\ argv0 \in Hints
  /\ fs \in [CandidateFiles(argv0) -> Status]
  /\ calls = <<>>
  /\ pc = "idle"
  /\ pos = 1
  /\ icon_path = <<>>
  /\ events = <<>>
  /\ raced = FALSE

\* A variant with a set-once guard: after a first call it returns at once.
SetIconCall_SetOnce ==
  /\ pc = "idle"
  /\ Len(calls) < MaxCalls
  /\ IF calls # <<>>
     THEN Finish("returned", <<>>)
     ELSE /\ pc' = "probe"
          /\ UNCHANGED <<calls, pos, icon_path, events, raced>>
  /\ UNCHANGED <<argv0, fs>>

\* The program calls SetIcon(argv0): possible_paths is built and icon_path
\* is empty.
SetIconCall ==
  /\ pc = "idle"
  /\ Len(calls) < MaxCalls
  /\ pc' = "probe"
  /\ UNCHANGED <<argv0, fs, calls, pos, icon_path, events, raced>>

\* One iteration of the loop: exists(possible_paths[pos]). An exception thrown
\* by exists is not caught and leaves SetIcon.
Probe ==
  /\ pc = "probe"
  /\ LET path == possible_paths(argv0)[pos]
         st   == exists(path, fs)
     IN  IF st = "error"
         THEN Finish("threw", Append(events, ExistsEvent(path, "throw")))
         ELSE IF st = "exists"
         THEN /\ icon_path' = path
              /\ events' = Append(events, ExistsEvent(path, "true"))
              /\ pc' = "report"
              /\ UNCHANGED <<calls, pos, raced>>
         ELSE /\ events' = Append(events, ExistsEvent(path, "false"))
              /\ pos' = pos + 1
              /\ pc' = IF pos = Len(possible_paths(argv0)) THEN "report" ELSE "probe"
              /\ UNCHANGED <<calls, icon_path, raced>>
  /\ UNCHANGED <<argv0, fs>>

\* A variant that writes a default icon.png when it found none.
Report_WritesDefaultIcon ==
  /\ pc = "report"
  /\ IF icon_path = <<>>
     THEN /\ Finish("returned", Append(events, LogEvent("WARNING", WarningText)))
          /\ fs' = [fs EXCEPT ![FileId(<<"icon.png">>)] = "exists"]
     ELSE /\ events' = Append(events, LogEvent("INFO", InfoText(icon_path)))
          /\ pc' = "helper"
          /\ UNCHANGED <<fs, calls, pos, icon_path, raced>>
  /\ UNCHANGED argv0

\* After the loop: the warning and return, or the informational message.
Report ==
  /\ pc = "report"
  /\ IF icon_path = <<>>
     THEN Finish("returned", Append(events, LogEvent("WARNING", WarningText)))
     ELSE /\ events' = Append(events, LogEvent("INFO", InfoText(icon_path)))
          /\ pc' = "helper"
          /\ UNCHANGED <<calls, pos, icon_path, raced>>
  /\ UNCHANGED <<argv0, fs>>

\* SetIconHelper(icon_path), then SetIcon returns. The routine is declared in
\* resources/icon_helper.h; it sets the displayed icon and touches no file.
SetIconHelper ==
  /\ pc = "helper"
  /\ Finish("returned", Append(events, HelperEvent(icon_path)))
  /\ UNCHANGED <<argv0, fs>>

\* Something else changes one of the files SetIcon looks at, between calls
\* or between two steps of a call. calls holds the calls finished since the
\* last change.
FsChange ==
  \E f \in DOMAIN fs, st \in Status :
    /\ st # fs[f]
    /\ fs' = [fs EXCEPT ![f] = st]
    /\ calls' = <<>>
    /\ raced' = (pc # "idle")
    /\ UNCHANGED <<argv0, pc, pos, icon_path, events>>

\* Something else renames one of the files SetIcon looks at to another of
\* them (rename(2): both names change at once).
FsRename ==
  \E f \in DOMAIN fs, g \in DOMAIN fs :
    /\ fs[f] = "exists"
    /\ fs[g] = "not_found"
    /\ fs' = [fs EXCEPT ![f] = "not_found", ![g] = "exists"]
    /\ calls' = <<>>
    /\ raced' = (pc # "idle")
    /\ UNCHANGED <<argv0, pc, pos, icon_path, events>>

Next == SetIconCall \/ Probe \/ Report \/ SetIconHelper \/ FsChange \/ FsRename

Spec == Init /\ [][Next]_vars

----------------------------------------------------------------------------
(* Vocabulary of the properties *)

ParentDir == parent_path(argv0)

NextToExe      == PathAppend(ParentDir, <<"icon.png">>)
InExeResources == PathAppend(PathAppend(ParentDir, <<"resources">>), <<"icon.png">>)
CwdResources   == <<"resources", "/", "icon.png">>
CwdIcon        == <<"icon.png">>

\* The ordered list {parentDir/icon.png, parentDir/resources/icon.png,
\* "resources/icon.png", "icon.png"}.
Ordered == <<NextToExe, InExeResources, CwdResources, CwdIcon>>

Candidates == {Ordered[k] : k \in 1..4}

\* A path exists when the existence check answers true for it.
Present(p) == fs[FileId(p)] = "exists"

NoCheckFails == \A k \in 1..4 : fs[FileId(Ordered[k])] # "error"

\* The finished calls. Every FsChange empties calls, so each of them ended
\* after the filesystem last changed.
Finished == {calls[k] : k \in DOMAIN calls}

\* The finished calls that ran from their first step to their last against
\* the filesystem as it is now: the calls of SetIcon "in filesystem state fs".
Settled == {c \in Finished : ~c.raced}

Probes(c)      == SelectSeq(c.events, LAMBDA e : e.op = "exists")
Diagnostics(c) == SelectSeq(c.events, LAMBDA e : e.op = "LOG")
HelperCalls(c) == SelectSeq(c.events, LAMBDA e : e.op = "SetIconHelper")

\* Index of the first existing entry of Ordered, 0 when there is none.
FirstExisting ==
  IF \E k \in 1..4 : Present(Ordered[k])
  THEN CHOOSE k \in 1..4 : Present(Ordered[k]) /\ \A j \in 1..(k - 1) : ~Present(Ordered[j])
  ELSE 0

----------------------------------------------------------------------------
(* Properties. A property about "a filesystem state" is about the calls in  *)
(* Settled: a call during which the filesystem changed ran in no one state. *)

\* C1: when the hint's parent directory is non-empty and parentDir/icon.png
\* exists, SetIcon invokes SetIconHelper once, with parentDir/icon.png,
\* whatever the state of the other three candidates.
C1_NextToExeWins ==
  \A c \in Settled :
    (ParentDir # <<>> /\ Present(NextToExe))
      => HelperCalls(c) = <<HelperEvent(NextToExe)>>

\* A call with parentDir/icon.png present beside another existing candidate
\* and a candidate whose check would fail.
C1_Witness ==
  /\ Settled # {}
  /\ ParentDir # <<>>
  /\ Present(NextToExe)
  /\ FileId(CwdIcon) # FileId(NextToExe)
  /\ Present(CwdIcon)
  /\ fs[FileId(InExeResources)] = "error"

\* C2: if none of the four candidates exists, SetIcon returns without
\* invoking SetIconHelper and emits exactly one diagnostic, a WARNING.
C2_NoneExistsWarns ==
  \A c \in Settled :
    (\A k \in 1..4 : ~Present(Ordered[k]))
      => /\ c.outcome = "returned"
         /\ HelperCalls(c) = <<>>
         /\ Len(Diagnostics(c)) = 1
         /\ Diagnostics(c)[1].tag = "WARNING"

\* C2 on the filesystems in which every existence check answers.
C2_WhenNoCheckFails == NoCheckFails => C2_NoneExistsWarns

\* C3: if exactly one candidate exists, SetIcon emits exactly one diagnostic,
\* the INFO naming that path, and invokes SetIconHelper exactly once with
\* exactly that path.
C3_SingleCandidate ==
  \A c \in Settled :
    Cardinality({p \in Candidates : Present(p)}) = 1
      => LET p == CHOOSE q \in Candidates : Present(q)
         IN  /\ Diagnostics(c) = <<LogEvent("INFO", InfoText(p))>>
             /\ HelperCalls(c) = <<HelperEvent(p)>>

\* C3 on the filesystems in which every existence check answers.
C3_WhenNoCheckFails == NoCheckFails => C3_SingleCandidate

\* C4: if neither parentDir/icon.png nor parentDir/resources/icon.png exists
\* and resources/icon.png exists, SetIcon chooses "resources/icon.png".
C4_CwdResourcesFallback ==
  \A c \in Settled :
    (~Present(NextToExe) /\ ~Present(InExeResources) /\ Present(CwdResources))
      => HelperCalls(c) = <<HelperEvent(CwdResources)>>

\* C4 on the filesystems in which every existence check answers.
C4_WhenNoCheckFails == NoCheckFails => C4_CwdResourcesFallback

\* C5: successive calls with the same hint against an unchanged filesystem do
\* the same: the same existence checks, diagnostics and SetIconHelper call (or
\* none), and end the same way.
C5_Idempotent ==
  \A c \in Settled : \A d \in Settled : c = d

\* Two successive calls against the same filesystem, each of which set the
\* icon.
C5_Witness ==
  /\ Len(calls) >= 2
  /\ ~calls[1].raced /\ ~calls[2].raced
  /\ HelperCalls(calls[1]) # <<>>
  /\ HelperCalls(calls[2]) # <<>>

\* C6: every call of SetIcon returns normally, whatever the hint and the
\* filesystem, also when an existence check fails with an error.
C6_ReturnsNormally ==
  \A c \in Finished : c.outcome = "returned"

\* C7: no step of SetIcon's own code (building the list, the existence
\* checks, the diagnostics) changes the filesystem, and a call checks the
\* existence of no path other than the four candidates. What SetIconHelper
\* does once called is not part of SetIcon.
C7_ReadsOnly ==
  [][(pc \in {"idle", "probe", "report"} /\ (pc' # pc \/ events' # events))
       => /\ fs' = fs
          /\ \A k \in DOMAIN events' :
               events'[k].op = "exists" => events'[k].arg \in Candidates]_vars

\* A call that checked all four candidates, found none and returned.
C7_Witness ==
  \E c \in Finished :
    /\ Len(Probes(c)) = 4
    /\ Len(Diagnostics(c)) = 1
    /\ Diagnostics(c)[1].tag = "WARNING"

\* C8: the chosen path is the lowest-index existing entry of the ordered
\* list, the candidates are probed in order up to the chosen one and no
\* further: index-of-first-existing checks, or four when none exists.
C8_FirstMatchAndStop ==
  \A c \in Settled :
    LET n == IF FirstExisting = 0 THEN 4 ELSE FirstExisting
    IN  /\ Len(Probes(c)) = n
        /\ \A k \in 1..n : Probes(c)[k].arg = Ordered[k]
        /\ HelperCalls(c) =
             IF FirstExisting = 0 THEN <<>> ELSE <<HelperEvent(Ordered[FirstExisting])>>

\* C8 on the filesystems in which every existence check answers.
C8_WhenNoCheckFails == NoCheckFails => C8_FirstMatchAndStop

\* C9: every call emits exactly one diagnostic, INFO or WARNING; it invokes
\* SetIconHelper at most once, exactly when the diagnostic is the INFO, and
\* then as its last step, right after the INFO and after every existence
\* check.
C9_Shape(c) ==
  LET n == Len(c.events)
  IN  /\ Len(Diagnostics(c)) = 1
      /\ Diagnostics(c)[1].tag \in {"INFO", "WARNING"}
      /\ Len(HelperCalls(c)) <= 1
      /\ (HelperCalls(c) # <<>>) = (Diagnostics(c)[1].tag = "INFO")
      /\ HelperCalls(c) # <<>>
           => /\ c.events[n].op = "SetIconHelper"
              /\ c.events[n - 1].op = "LOG"
              /\ \A k \in 1..(n - 2) : c.events[k].op = "exists"

C9_OneDiagnostic == \A c \in Finished : C9_Shape(c)

\* C9 for the calls in which every existence check answered, whether or not
\* the filesystem changed meanwhile.
C9_WhenNoCheckFails ==
  \A c \in Finished : c.outcome = "returned" => C9_Shape(c)

\* C10: when the hint has no directory component the first two candidates
\* are "icon.png" and "resources/icon.png", the list holds two distinct
\* paths, "icon.png" is chosen whenever it exists, and a chosen path is
\* always found by the first or the second check.
C10_BareHint ==
  ParentDir = <<>>
    => /\ possible_paths(argv0)[1] = CwdIcon
       /\ possible_paths(argv0)[2] = CwdResources
       /\ Cardinality({possible_paths(argv0)[k] : k \in 1..4}) = 2
       /\ \A c \in Settled :
            /\ Present(CwdIcon) => HelperCalls(c) = <<HelperEvent(CwdIcon)>>
            /\ HelperCalls(c) # <<>> => Len(Probes(c)) <= 2

\* A call with a bare hint where both "icon.png" and "resources/icon.png"
\* exist.
C10_Witness ==
  /\ Settled # {}
  /\ ParentDir = <<>>
  /\ Present(CwdIcon)
  /\ Present(CwdResources)

\* A call that ended in the warning although a candidate exists: the file
\* appeared, or moved, between two existence checks.
RacedWarning ==
  \E c \in Finished :
    /\ c.raced
    /\ Len(Probes(c)) = 4
    /\ Diagnostics(c) = <<LogEvent("WARNING", WarningText)>>
    /\ \E k \in 1..4 : Present(Ordered[k])

====
